---- MODULE Spec2Model ----
(***************************************************************************)
(* Model of tintin-app/server.js: the swipe / match / chat core of the     *)
(* TINTIN server (express routes + socket.io handlers over SQLite).        *)
(*                                                                         *)
(* Every route handler and socket handler of server.js is synchronous      *)
(* (better-sqlite3 calls block, there is no await), so Node runs each one  *)
(* to completion before the next: one handler = one atomic action, and     *)
(* "concurrent" requests are served in some order, one after the other.    *)
(***************************************************************************)
EXTENDS Integers, Sequences, FiniteSets, TLC

(* ---- bounds of the model ---- *)
MaxLikes == 3
MaxMsgs == 2
MaxId == 6

(* ---- input domains ---- *)
\* rows of table users (server.js:51-61); ids are opaque strings
Users == {"u1", "u2", "u3"}
\* a field absent from a request body / payload (undefined in JS, NULL in SQL)
Null == "null"
\* socket.io connections that may be open at the same time
ConnIds == {"c1", "c2"}
\* message contents tried by senders; Null is a payload without content
Contents == {"hi", Null}
\* bodies of POST /api/swipe/action that fail validation
BadSwipes ==
  { [targetUserId |-> Null, action |-> "like"],
    [targetUserId |-> "u1", action |-> Null],
    [targetUserId |-> "u1", action |-> "superlike"] }
\* a match id that names no row of table matches
UnknownMatchId == <<"m", 0>>

VARIABLES
  likes,      \* table likes, in insertion (rowid) order
  matches,    \* table matches, in insertion order
  messages,   \* table messages, in insertion order
  nextId,     \* the counter of genId
  now,        \* the last CURRENT_TIMESTAMP (seconds) the database stored
  sockets,    \* connection -> socket.userId of the live socket, or Null
  emitted,    \* every io.to(room).emit(...) so far, in order
  delivered,  \* for each emit of the handler that ran last: the event and the
              \* connections socket.io handed it to
  swipeLog,   \* the responses to the swipes that inserted a likes row, in order
  req,        \* the request served last
  res         \* its response (HTTP response, or the socket's 'error' event)

vars == <<likes, matches, messages, nextId, now, sockets, emitted, delivered,
          swipeLog, req, res>>

(* ---- helpers ---- *)
\* genId (server.js:116-119): `${prefix}_${nextId++}_${Date.now()}`; the
\* counter alone makes the ids of one server run distinct, so the id is the
\* pair (prefix, counter value); the k-th call of a handler uses nextId + k.
genId(prefix, k) == <<prefix, nextId + k>>

Range(s) == { s[i] : i \in DOMAIN s }

\* db.prepare(...).get(...) : the first row of a result as a one-row sequence,
\* or the empty sequence (undefined in JS) when the result is empty
FirstRow(rows) == IF rows = <<>> THEN <<>> ELSE <<rows[1]>>

\* mutant of Recipients: a room holds one socket only, a user's second
\* connection taking no part in it
RecipientsOne(room) ==
  LET live == { c \in ConnIds : sockets[c] = room }
  IN IF live = {} THEN {} ELSE {CHOOSE c \in live : TRUE}

\* the sockets in a room: each socket joins the room named by its userId
\* (server.js:495) and leaves it when it disconnects
Recipients(room) == { c \in ConnIds : sockets[c] = room }

\* io.to(room).emit(event, payload) (server.js:385-386, 526-527), as logged in
\* `emitted`; socket.io hands the event to Recipients(room)
Emit(event, room, payload) ==
  [event |-> event, room |-> room, payload |-> payload]

\* what socket.io does with the emits of one handler: each goes to the sockets
\* that are in its room when the handler runs
Deliver(events) ==
  [k \in DOMAIN events |-> [event |-> events[k], to |-> Recipients(events[k].room)]]

(* ---- GET /api/swipe/cards ---- *)
\* mutant of seenStmt: only the likes count as seen, the passes do not
seenStmtLikesOnly(userId) ==
  LET rows == SelectSeq(likes, LAMBDA l : l.fromUserId = userId /\ l.action = "like")
  IN [k \in DOMAIN rows |-> rows[k].toUserId]

\* SELECT toUserId FROM likes WHERE fromUserId = ?, mapped to the ids
\* (server.js:314-317): one entry per swipe, repeated targets included
seenStmt(userId) ==
  LET rows == SelectSeq(likes, LAMBDA l : l.fromUserId = userId)
  IN [k \in DOMAIN rows |-> rows[k].toUserId]

\* the response of GET /api/swipe/cards (server.js:312-349). The query has one
\* `?` for u.id != ? and one per entry of seen, or a single one when seen is
\* empty (`|| '?'`, server.js:319), and is given the parameters
\* [userId, ...seen] (server.js:328). better-sqlite3 throws when the number of
\* parameters is not the number of `?`; the catch answers 500. The body is the
\* set of the ids of the cards, the order of the rows being left to SQL.
GetCardsReply(userId) ==
  LET seen == seenStmt(userId)
      placeholders == IF Len(seen) = 0 THEN 1 ELSE Len(seen)
      params == <<userId>> \o seen
  IN IF Len(params) # 1 + placeholders
     THEN [status |-> 500, error |-> "Erro ao obter cards"]
     ELSE [status |-> 200,
           body |-> { u \in Users :
                        /\ u # params[1]
                        /\ \A k \in 2..Len(params) : u # params[k] }]

GetCards(userId) ==
  /\ req' = [op |-> "cards", userId |-> userId]
  /\ res' = GetCardsReply(userId)
  /\ delivered' = <<>>
  /\ UNCHANGED <<likes, matches, messages, nextId, now, sockets, emitted, swipeLog>>

(* ---- POST /api/swipe/action ---- *)
\* mutant of reciprocalStmt: the two ids bound in the wrong order, so that the
\* query looks for the like of the actor instead of the like of the target
reciprocalStmtSwapped(rows, from, to) ==
  FirstRow(SelectSeq(rows,
    LAMBDA l : l.fromUserId = to /\ l.toUserId = from /\ l.action = "like"))

\* mutant of reciprocalStmt: only the latest swipe of `from` on `to` counts
reciprocalStmtLatest(rows, from, to) ==
  LET pair == SelectSeq(rows, LAMBDA l : l.fromUserId = from /\ l.toUserId = to)
  IN IF pair # <<>> /\ pair[Len(pair)].action = "like"
     THEN <<pair[Len(pair)]>>
     ELSE <<>>

\* mutant of reciprocalStmt: any swipe of `from` on `to` counts, a pass too
reciprocalStmtAnyAction(rows, from, to) ==
  FirstRow(SelectSeq(rows, LAMBDA l : l.fromUserId = from /\ l.toUserId = to))

\* SELECT id FROM likes WHERE fromUserId = ? AND toUserId = ? AND action = 'like'
\* (server.js:371-375), run against the table `rows`
reciprocalStmt(rows, from, to) ==
  FirstRow(SelectSeq(rows,
    LAMBDA l : l.fromUserId = from /\ l.toUserId = to /\ l.action = "like"))

\* mutant of actionAllowed: the value of action is not checked
actionAllowedAny(action) == TRUE

\* ['like', 'pass'].includes(action) (server.js:358)
actionAllowed(action) == action \in {"like", "pass"}

\* mutant of insertLike: one row per (fromUserId, toUserId), a later swipe
\* replacing the earlier one
insertLikeReplace(rows, id, from, to, action) ==
  Append(SelectSeq(rows, LAMBDA l : ~(l.fromUserId = from /\ l.toUserId = to)),
         [id |-> id, fromUserId |-> from, toUserId |-> to, action |-> action])

\* INSERT INTO likes (id, fromUserId, toUserId, action) (server.js:364-368)
insertLike(rows, id, from, to, action) ==
  Append(rows, [id |-> id, fromUserId |-> from, toUserId |-> to, action |-> action])

\* mutant of insertMatch: one row per pair, a later match replacing the earlier
insertMatchReplace(rows, id, a, b) ==
  Append(SelectSeq(rows, LAMBDA m : {m.userA, m.userB} # {a, b}),
         [id |-> id, userA |-> a, userB |-> b])

\* INSERT INTO matches (id, userA, userB) (server.js:379-383)
insertMatch(rows, id, a, b) ==
  Append(rows, [id |-> id, userA |-> a, userB |-> b])

\* server.js:351-397
SubmitSwipe(userId, targetUserId, action) ==
  /\ req' = [op |-> "swipe", userId |-> userId,
             targetUserId |-> targetUserId, action |-> action]
  /\ IF targetUserId = Null \/ action = Null
     THEN /\ res' = [status |-> 400, error |-> "targetUserId e action sao obrigatorios"]
          /\ delivered' = <<>>
          /\ UNCHANGED <<likes, matches, messages, nextId, now, sockets, emitted, swipeLog>>
     ELSE IF ~actionAllowed(action)
     THEN /\ res' = [status |-> 400, error |-> "Action deve ser like ou pass"]
          /\ delivered' = <<>>
          /\ UNCHANGED <<likes, matches, messages, nextId, now, sockets, emitted, swipeLog>>
     ELSE
       LET likeId == genId("like", 0)
           newLikes == insertLike(likes, likeId, userId, targetUserId, action)
           reciprocal == IF action = "like"
                         THEN reciprocalStmt(newLikes, targetUserId, userId)
                         ELSE <<>>
       IN /\ Len(likes) < MaxLikes
          /\ likes' = newLikes
          /\ IF reciprocal # <<>>
             THEN LET matchId == genId("m", 1)
                      events ==
                        << Emit("matched", userId,
                                [matchId |-> matchId, with |-> targetUserId]),
                           Emit("matched", targetUserId,
                                [matchId |-> matchId, with |-> userId]) >>
                  IN /\ nextId + 1 <= MaxId
                     /\ nextId' = nextId + 2
                     /\ matches' = insertMatch(matches, matchId, userId, targetUserId)
                     /\ emitted' = emitted \o events
                     /\ delivered' = Deliver(events)
                     /\ res' = [status |-> 200, ok |-> TRUE, match |-> TRUE,
                                matchId |-> matchId]
             ELSE /\ nextId <= MaxId
                  /\ nextId' = nextId + 1
                  /\ res' = [status |-> 200, ok |-> TRUE, match |-> FALSE]
                  /\ delivered' = <<>>
                  /\ UNCHANGED <<matches, emitted>>
          /\ swipeLog' = Append(swipeLog, res')
          /\ UNCHANGED <<messages, now, sockets>>

(* ---- GET /api/matches/:id/messages ---- *)
\* mutant of matchStmt: the participant test looks at userA only
matchStmtUserAOnly(id, userId) ==
  FirstRow(SelectSeq(matches, LAMBDA m : m.id = id /\ m.userA = userId))

\* mutant of matchStmt: no participant test, the id alone selects the match
matchStmtAnyUser(id, userId) ==
  FirstRow(SelectSeq(matches, LAMBDA m : m.id = id))

\* SELECT * FROM matches WHERE id = ? AND (userA = ? OR userB = ?)
\* (server.js:416-419 and 501-504)
matchStmt(id, userId) ==
  FirstRow(SelectSeq(matches,
    LAMBDA m : m.id = id /\ (m.userA = userId \/ m.userB = userId)))

\* the rows of table messages of one match, in insertion order
MessagesOf(matchId) == SelectSeq(messages, LAMBDA x : x.matchId = matchId)

\* all the orders in which the elements of sequence s can be listed
Perms(s) ==
  LET n == Len(s)
  IN { [i \in 1..n |-> s[f[i]]] :
         f \in { g \in [1..n -> 1..n] : \A i, j \in 1..n : i # j => g[i] # g[j] } }

\* SELECT * FROM messages WHERE matchId = ? ORDER BY createdAt ASC
\* (server.js:423-426): SQL fixes the order of the rows by createdAt only, and
\* leaves the order of rows with equal createdAt to the engine: every order
\* that is ascending in createdAt is a result the query may return.
msgStmt(matchId) ==
  { r \in Perms(MessagesOf(matchId)) :
      \A i, j \in DOMAIN r : i < j => r[i].createdAt <= r[j].createdAt }

\* the responses GET /api/matches/:id/messages may give (server.js:414-431)
GetMessagesReplies(userId, id) ==
  IF matchStmt(id, userId) = <<>>
  THEN { [status |-> 404, error |-> "Match nao encontrado"] }
  ELSE { [status |-> 200, body |-> r] : r \in msgStmt(id) }

GetMessages(userId, id) ==
  /\ req' = [op |-> "messages", userId |-> userId, id |-> id]
  /\ res' \in GetMessagesReplies(userId, id)
  /\ delivered' = <<>>
  /\ UNCHANGED <<likes, matches, messages, nextId, now, sockets, emitted, swipeLog>>

(* ---- socket.io ---- *)
\* io.use + io.on('connection') (server.js:480-495): a handshake with a valid
\* token opens a socket with socket.userId and joins the room of that id
Connect(c, userId) ==
  /\ sockets[c] = Null
  /\ sockets' = [sockets EXCEPT ![c] = userId]
  /\ UNCHANGED <<likes, matches, messages, nextId, now, emitted, delivered,
                 swipeLog, req, res>>

\* socket 'disconnect' (server.js:534-536): socket.io drops the socket from its rooms
Disconnect(c) ==
  /\ sockets[c] # Null
  /\ sockets' = [sockets EXCEPT ![c] = Null]
  /\ UNCHANGED <<likes, matches, messages, nextId, now, emitted, delivered,
                 swipeLog, req, res>>

\* mutant of messageEvents: the two emits placed before the insert, so that
\* they run whether or not the insert throws
messageEventsAlways(match, msg, inserted) ==
  << Emit("message", match.userA, msg), Emit("message", match.userB, msg) >>

\* the emits of send_message (server.js:526-527): they come after
\* insertMsg.run in the try block, so they run only when the insert did not
\* throw
messageEvents(match, msg, inserted) ==
  IF inserted
  THEN << Emit("message", match.userA, msg), Emit("message", match.userB, msg) >>
  ELSE <<>>

\* socket.on('send_message') (server.js:497-532) on connection c; t is the
\* CURRENT_TIMESTAMP the database stores for the row (seconds, never earlier
\* than the last one stored), which also stands for the clock reading put in
\* the payload (server.js:523)
SendMessage(c, matchId, content, t) ==
  LET userId == sockets[c]
      match == matchStmt(matchId, userId)
  IN /\ userId # Null
     /\ req' = [op |-> "send_message", conn |-> c, userId |-> userId,
                matchId |-> matchId, content |-> content]
     /\ IF match = <<>>
        THEN /\ res' = [event |-> "error", error |-> "Match nao encontrado"]
             /\ delivered' = <<>>
             /\ UNCHANGED <<messages, nextId, now, emitted>>
        ELSE LET msgId == genId("msg", 0)
                 msg == [id |-> msgId, matchId |-> matchId, senderId |-> userId,
                         content |-> content, createdAt |-> t]
                 \* messages.content is NOT NULL (server.js:95): without
                 \* content the insert throws and the catch reports it
                 inserted == content # Null
             IN /\ nextId <= MaxId
                /\ nextId' = nextId + 1
                /\ emitted' = emitted \o messageEvents(match[1], msg, inserted)
                /\ delivered' = Deliver(messageEvents(match[1], msg, inserted))
                /\ IF ~inserted
                   THEN /\ res' = [event |-> "error", error |-> "Erro ao enviar mensagem"]
                        /\ UNCHANGED <<messages, now>>
                   ELSE /\ Len(messages) < MaxMsgs
                        /\ messages' = Append(messages, msg)
                        /\ now' = t
                        /\ res' = [event |-> "none"]
     /\ UNCHANGED <<likes, matches, sockets, swipeLog>>

(* ---- the system ---- *)
\* initDatabase + seed (server.js:48-182, 540-541): the users exist, the other
\* tables are empty, no socket is connected
Init ==
  /\ likes = <<>>
  /\ matches = <<>>
  /\ messages = <<>>
  /\ nextId = 1
  /\ now = 0
  /\ sockets = [c \in ConnIds |-> Null]
  /\ emitted = <<>>
  /\ delivered = <<>>
  /\ swipeLog = <<>>
  /\ req = [op |-> "none"]
  /\ res = [status |-> 0]

MatchIds == { matches[i].id : i \in DOMAIN matches } \cup {UnknownMatchId}

Next ==
  \/ \E u \in Users : GetCards(u)
  \/ \E u \in Users, t \in Users, a \in {"like", "pass"} : SubmitSwipe(u, t, a)
  \/ \E u \in Users, b \in BadSwipes : SubmitSwipe(u, b.targetUserId, b.action)
  \/ \E u \in Users, id \in MatchIds : GetMessages(u, id)
  \/ \E c \in ConnIds, u \in Users : Connect(c, u)
  \/ \E c \in ConnIds : Disconnect(c)
  \/ \E c \in ConnIds, id \in MatchIds, x \in Contents, t \in {now, now + 1} :
       SendMessage(c, id, x, t)

\* the whole server
Spec == Init /\ [][Next]_vars

(* The parts of the server that are explored exhaustively: each is Spec      *)
(* with the requests drawn from a part of the input domain.                  *)

\* The swipe route alone: every swipe of every user on every user
NextSwipe ==
  \/ \E u \in Users, t \in Users, a \in {"like", "pass"} : SubmitSwipe(u, t, a)
  \/ \E u \in Users, b \in BadSwipes : SubmitSwipe(u, b.targetUserId, b.action)

SpecSwipe == Init /\ [][NextSwipe]_vars

\* The swipe deck: every swipe of every user on every user, and the listing
\* of the candidates
NextCards ==
  \/ \E u \in Users : GetCards(u)
  \/ \E u \in Users, t \in Users, a \in {"like", "pass"} : SubmitSwipe(u, t, a)

SpecCards == Init /\ [][NextCards]_vars

\* The chat side: the likes that u1 and u2 can give each other create the
\* matches; every user connects on the one connection in use, sends and reads;
\* u3 never matches
Likers == {"u1", "u2"}
ChatConns == {"c1"}

NextChat ==
  \/ \E u \in Likers : \E t \in Likers \ {u} : SubmitSwipe(u, t, "like")
  \/ \E u \in Users, id \in MatchIds : GetMessages(u, id)
  \/ \E c \in ChatConns, u \in Users : Connect(c, u)
  \/ \E c \in ChatConns : Disconnect(c)
  \/ \E c \in ChatConns, id \in MatchIds, x \in Contents, t \in {now, now + 1} :
       SendMessage(c, id, x, t)

SpecChat == Init /\ [][NextChat]_vars

\* The fan-out of the message event: u1 and u2 match; every user may hold
\* both connections, one, or none, and sends on the connections it holds
NextFanout ==
  \/ \E u \in Likers : \E t \in Likers \ {u} : SubmitSwipe(u, t, "like")
  \/ \E c \in ConnIds, u \in Users : Connect(c, u)
  \/ \E c \in ConnIds : Disconnect(c)
  \/ \E c \in ConnIds, id \in MatchIds : SendMessage(c, id, "hi", now)

SpecFanout == Init /\ [][NextFanout]_vars

(***************************************************************************)
(* Properties                                                              *)
(***************************************************************************)
\* the two participants of a row of table matches
Pair(m) == {m.userA, m.userB}

\* the rows of table matches that link a and b
MatchesOf(a, b) == { m \in Range(matches) : Pair(m) = {a, b} }

\* C1: at most one Match per unordered pair of identities {A,B}, a row (A,B)
\* and a row (B,A) counting as the same pair, after any sequence of swipes.
C1_OneMatchPerPair ==
  \A i, j \in DOMAIN matches :
    (i # j /\ matches[i].userA # matches[i].userB)
      => Pair(matches[i]) # Pair(matches[j])

\* C2: for distinct A and B with no match yet and like(A,B) recorded, the
\* like of B on A creates a Match whose participants are exactly {A,B}, answers
\* match = true with the id of that Match, and right after it GetMessages on
\* that match answers the empty sequence to A and to B.
C2_ReciprocalLikeCreatesMatch ==
  [][ \A a \in Users, b \in Users :
        ( /\ a # b
          /\ MatchesOf(a, b) = {}
          /\ reciprocalStmt(likes, a, b) # <<>>
          /\ SubmitSwipe(b, a, "like") )
        => /\ Len(matches') = Len(matches) + 1
           /\ SubSeq(matches', 1, Len(matches)) = matches
           /\ Pair(matches'[Len(matches')]) = {a, b}
           /\ res' = [status |-> 200, ok |-> TRUE, match |-> TRUE,
                      matchId |-> matches'[Len(matches')].id]
           /\ \A id \in {matches'[Len(matches')].id} :
                /\ GetMessagesReplies(a, id)' = {[status |-> 200, body |-> <<>>]}
                /\ GetMessagesReplies(b, id)' = {[status |-> 200, body |-> <<>>]}
    ]_vars

\* C2 witness: a participant has read the (empty) messages of the one match
\* that the second of two reciprocal likes created
C2_Witness ==
  /\ Len(likes) = 2
  /\ Len(matches) = 1
  /\ matches[1].userA # matches[1].userB
  /\ swipeLog[2] = [status |-> 200, ok |-> TRUE, match |-> TRUE,
                    matchId |-> matches[1].id]
  /\ req.op = "messages"
  /\ req.id = matches[1].id
  /\ req.userId = matches[1].userB
  /\ res = [status |-> 200, body |-> <<>>]

\* C3: a like between two users who already have a Match (the reciprocal
\* like being there) answers match = true with the id of the existing Match,
\* not a new id.
C3_ExistingMatchIdReturned ==
  [][ \A a \in Users, b \in Users :
        ( /\ a # b
          /\ MatchesOf(a, b) # {}
          /\ reciprocalStmt(likes, b, a) # <<>>
          /\ SubmitSwipe(a, b, "like") )
        => /\ res'.status = 200
           /\ res'.match
           /\ res'.matchId \in { m.id : m \in MatchesOf(a, b) }
    ]_vars

\* the `matched` events emitted to a that name b
MatchedEvents(a, b) ==
  { i \in DOMAIN emitted :
      /\ emitted[i].event = "matched"
      /\ emitted[i].room = a
      /\ emitted[i].payload.with = b }

\* C4: for each pair {A,B} the `matched` event is emitted exactly once to A
\* (naming B) and exactly once to B (naming A), when the Match is created, and
\* never again.
C4_MatchedEventOnce ==
  \A a \in Users, b \in Users :
    a # b =>
      Cardinality(MatchedEvents(a, b)) = (IF MatchesOf(a, b) = {} THEN 0 ELSE 1)

\* C5: a swipe of A on A, like or pass, fails, and leaves no SwipeAction
\* record, no Match and no event.
C5_NoSelfAction ==
  /\ (req.op = "swipe" /\ req.userId = req.targetUserId) => res.status # 200
  /\ \A i \in DOMAIN likes : likes[i].fromUserId # likes[i].toUserId
  /\ \A i \in DOMAIN matches : matches[i].userA # matches[i].userB
  /\ \A i \in DOMAIN emitted :
       emitted[i].event = "matched" => emitted[i].room # emitted[i].payload.with

\* C6: every Match has two distinct participants.
C6_DistinctParticipants ==
  \A i \in DOMAIN matches : matches[i].userA # matches[i].userB

\* rows i < j of table likes are a like of a on b and a like of b on a, and
\* the only swipes between a and b: the two requests were served with no
\* earlier swipe between the two users
TwoCrossedLikes(a, b, i, j) ==
  /\ a # b
  /\ i < j
  /\ likes[i].fromUserId = a /\ likes[i].toUserId = b /\ likes[i].action = "like"
  /\ likes[j].fromUserId = b /\ likes[j].toUserId = a /\ likes[j].action = "like"
  /\ \A k \in DOMAIN likes :
       {likes[k].fromUserId, likes[k].toUserId} = {a, b} => k \in {i, j}

\* C7 as stated: when A and B, with no earlier swipe between them, each
\* like the other in two concurrent requests, both responses say match = true
\* with the same matchId.
C7_BothResponsesMatched ==
  \A a \in Users, b \in Users : \A i \in DOMAIN likes, j \in DOMAIN likes :
    TwoCrossedLikes(a, b, i, j)
      => /\ swipeLog[i].match
         /\ swipeLog[j].match
         /\ swipeLog[i].matchId = swipeLog[j].matchId

\* C7 amended: the two requests are served one after the other; the response
\* to the one served first says match = false, the response to the one served
\* second says match = true with the id of the one Match made for {A,B}.
C7_SecondResponseMatched ==
  \A a \in Users, b \in Users : \A i \in DOMAIN likes, j \in DOMAIN likes :
    TwoCrossedLikes(a, b, i, j)
      => /\ swipeLog[i] = [status |-> 200, ok |-> TRUE, match |-> FALSE]
         /\ swipeLog[j].match
         /\ Cardinality({ k \in DOMAIN matches : Pair(matches[k]) = {a, b} }) = 1
         /\ \A m \in MatchesOf(a, b) : swipeLog[j].matchId = m.id

\* C7 witness: both crossed likes have been served
C7_Witness ==
  \E a \in Users, b \in Users : \E i \in DOMAIN likes, j \in DOMAIN likes :
    TwoCrossedLikes(a, b, i, j) /\ swipeLog[j].match

\* C8: GetMessages answers all the messages of the match in the order in
\* which they were inserted, also when messages have the same createdAt.
C8_HistoryInInsertionOrder ==
  (req.op = "messages" /\ res.status = 200) => res.body = MessagesOf(req.id)

\* C9: every Message carries a sequence number, strictly increasing within
\* its match in insertion order, and the `message` event carries it.
C9_SequenceNumbers ==
  /\ \A i \in DOMAIN messages : "sequence" \in DOMAIN messages[i]
  /\ \A i \in DOMAIN emitted :
       emitted[i].event = "message" => "sequence" \in DOMAIN emitted[i].payload
  /\ \A i \in DOMAIN messages, j \in DOMAIN messages :
       (i < j /\ messages[i].matchId = messages[j].matchId)
         => messages[i].sequence < messages[j].sequence

\* u is not one of the participants of the match with this id
NonParticipant(u, id) ==
  \E m \in Range(matches) : m.id = id /\ u \notin Pair(m)

\* C10: a user who is not a participant of match m cannot add a Message to
\* m nor have a `message` event emitted, and reads none of its messages; hence
\* the senderId of every Message is a participant of its match.
C10_OnlyParticipants ==
  /\ [](\A i \in DOMAIN messages :
          \E m \in Range(matches) :
            m.id = messages[i].matchId /\ messages[i].senderId \in Pair(m))
  /\ [][ /\ \A c \in ConnIds, id \in MatchIds, x \in Contents, t \in {now, now + 1} :
              (NonParticipant(sockets[c], id) /\ SendMessage(c, id, x, t))
                => /\ messages' = messages
                   /\ emitted' = emitted
                   /\ res'.event = "error"
         /\ \A u \in Users, id \in MatchIds :
              (NonParticipant(u, id) /\ GetMessages(u, id))
                => res' = [status |-> 404, error |-> "Match nao encontrado"]
       ]_vars

\* C10 witness: a match has a message, and a user who is not one of its
\* participants has just been refused sending to it
C10_Witness ==
  /\ req.op = "send_message"
  /\ NonParticipant(req.userId, req.matchId)
  /\ MessagesOf(req.matchId) # <<>>
  /\ res.event = "error"

C12_CardsExcludeSelfAndSeen ==
  (req.op = "cards" /\ res.status = 200)
    => /\ req.userId \notin res.body
       /\ \A i \in DOMAIN likes :
            likes[i].fromUserId = req.userId => likes[i].toUserId \notin res.body

\* C12 witness: X has passed on a user and is listed the candidates left
C12_Witness ==
  /\ req.op = "cards"
  /\ res.status = 200
  /\ res.body # {}
  /\ \E i \in DOMAIN likes :
       /\ likes[i].fromUserId = req.userId
       /\ likes[i].toUserId # req.userId
       /\ likes[i].action = "pass"

\* the step serves POST /api/swipe/action for the request it leaves in req
SwipeStep ==
  /\ req'.op = "swipe"
  /\ SubmitSwipe(req'.userId, req'.targetUserId, req'.action)

\* A has recorded a like on B and the latest swipe of A on B is a pass
LikeThenPass(a, b) ==
  LET pair == SelectSeq(likes, LAMBDA l : l.fromUserId = a /\ l.toUserId = b)
  IN /\ pair # <<>>
     /\ pair[Len(pair)].action = "pass"
     /\ \E i \in DOMAIN pair : pair[i].action = "like"

\* C13: reciprocity is decided by the existence of any like record, not by
\* the latest decision: when A liked B and later passed on B, a like of B on A
\* still finds the reciprocal like, answers match = true and stores a Match
\* for {A, B}.
C13_AnyLikeRecordCounts ==
  [][ LET b == req'.userId
          a == req'.targetUserId
      IN (SwipeStep /\ req'.action = "like" /\ LikeThenPass(a, b))
           => /\ res'.match = TRUE
              /\ Len(matches') = Len(matches) + 1
              /\ matches'[Len(matches')].id = res'.matchId
              /\ Pair(matches'[Len(matches')]) = {a, b} ]_vars

\* C13 witness: B's like has been answered with a match although the latest
\* swipe of A on B is a pass
C13_Witness ==
  /\ req.op = "swipe"
  /\ req.action = "like"
  /\ req.userId # req.targetUserId
  /\ LikeThenPass(req.targetUserId, req.userId)
  /\ res.status = 200
  /\ res.match = TRUE

\* C14: a swipe with a missing target, a missing action, or an action outside
\* {like, pass} is rejected with the validation error (400) and leaves likes,
\* matches and messages unchanged and emits no event.
C14_ValidationRejectsWithoutEffect ==
  [][ ( /\ SwipeStep
         /\ \/ req'.targetUserId = Null
            \/ req'.action = Null
            \/ req'.action \notin {"like", "pass"} )
          => /\ res'.status = 400
             /\ likes' = likes
             /\ matches' = matches
             /\ messages' = messages
             /\ emitted' = emitted
             /\ delivered' = <<>> ]_vars

\* C14 witness: a malformed swipe has been rejected while the ledger holds
\* swipes and a match
C14_Witness ==
  /\ req.op = "swipe"
  /\ \E b \in BadSwipes : req.targetUserId = b.targetUserId /\ req.action = b.action
  /\ res.status = 400
  /\ likes # <<>>
  /\ matches # <<>>

\* C15: every valid swipe (actor different from target, action like or pass)
\* succeeds and appends exactly one likes row, also when a row with the same
\* (actor, target, action) exists already; no step modifies or removes a row,
\* so the likes table only grows.
C15_SwipeAppendsOneRecord ==
  [][ /\ LET u == req'.userId
              t == req'.targetUserId
              a == req'.action
         IN (SwipeStep /\ t \in Users \ {u} /\ a \in {"like", "pass"})
             => /\ res'.status = 200
                /\ Len(likes') = Len(likes) + 1
                /\ likes'[Len(likes')].fromUserId = u
                /\ likes'[Len(likes')].toUserId = t
                /\ likes'[Len(likes')].action = a
                /\ \A i \in DOMAIN likes : likes'[Len(likes')].id # likes[i].id
      /\ \A i \in DOMAIN likes : i \in DOMAIN likes' /\ likes'[i] = likes[i] ]_vars

\* C15 witness: a swipe repeating an earlier (actor, target, action) has
\* succeeded and both rows are in the table
C15_Witness ==
  /\ req.op = "swipe"
  /\ res.status = 200
  /\ req.userId # req.targetUserId
  /\ \E i \in DOMAIN likes :
       /\ i < Len(likes)
       /\ likes[i].fromUserId = req.userId
       /\ likes[i].toUserId = req.targetUserId
       /\ likes[i].action = req.action
       /\ likes[Len(likes)].fromUserId = req.userId
       /\ likes[Len(likes)].toUserId = req.targetUserId
       /\ likes[Len(likes)].action = req.action

\* C16: matched is terminal: a matches row that exists in a state exists with
\* the same id and the same participants after every step, whatever swipe,
\* message, connect or disconnect the step is.
C16_MatchIsTerminal ==
  [][ \A i \in DOMAIN matches :
        /\ i \in DOMAIN matches'
        /\ matches'[i] = matches[i] ]_vars

\* C16 witness: after the match a message was sent on it and then one more
\* swipe was made, and the match is still there
C16_Witness ==
  /\ req.op = "swipe"
  /\ res.status = 200
  /\ messages # <<>>
  /\ \E m \in Range(matches) : messages[1].matchId = m.id

\* C17: a successful send_message hands the message event, for each of the
\* two participants, to every socket that user holds at that moment (to each
\* of them when there are several, to none when the user holds none); the send
\* succeeds all the same and the message is in the history GET messages
\* returns to both participants, and stays in table messages.
C17_MessageFanout ==
  [][ /\ \A c \in ConnIds, id \in MatchIds, t \in {now, now + 1} :
           (matchStmt(id, sockets[c]) # <<>> /\ SendMessage(c, id, "hi", t))
             => LET m == matchStmt(id, sockets[c])[1]
                    msg == messages'[Len(messages')]
                IN /\ res' = [event |-> "none"]
                   /\ Len(messages') = Len(messages) + 1
                   /\ msg.matchId = id /\ msg.senderId = sockets[c]
                   /\ \A p \in Pair(m) :
                        /\ \E k \in DOMAIN delivered' :
                             /\ delivered'[k].event = Emit("message", p, msg)
                             /\ delivered'[k].to = { d \in ConnIds : sockets[d] = p }
                        /\ \A r \in GetMessagesReplies(p, id)' :
                             r.status = 200 /\ msg \in Range(r.body)
      /\ \A i \in DOMAIN messages : i \in DOMAIN messages' /\ messages'[i] = messages[i]
    ]_vars

\* C17 witness: the sender holds both connections and the other participant
\* none: the event went to the two sockets of the one and was dropped for the
\* other, and the message is stored
C17_Witness ==
  /\ req.op = "send_message"
  /\ res = [event |-> "none"]
  /\ \A c \in ConnIds : sockets[c] = req.userId
  /\ Len(delivered) = 2
  /\ \E k \in DOMAIN delivered : delivered[k].to = ConnIds
  /\ \E k \in DOMAIN delivered : delivered[k].to = {}
  /\ \E i \in DOMAIN messages : messages[i] = delivered[1].event.payload

\* C18: persist before notify: the Match named by an emitted matched event
\* is a row of table matches and the Message whose id an emitted message event
\* carries is a row of table messages; a send_message whose insert fails emits
\* no event and stores nothing.
C18_PersistBeforeNotify ==
  /\ [](\A k \in DOMAIN emitted :
          /\ emitted[k].event = "matched"
               => \E m \in Range(matches) :
                    /\ m.id = emitted[k].payload.matchId
                    /\ Pair(m) = {emitted[k].room, emitted[k].payload.with}
          /\ emitted[k].event = "message"
               => \E x \in Range(messages) :
                    /\ x.id = emitted[k].payload.id
                    /\ x.matchId = emitted[k].payload.matchId
                    /\ x.content = emitted[k].payload.content)
  /\ [][ \A c \in ConnIds, id \in MatchIds, t \in {now, now + 1} :
           (matchStmt(id, sockets[c]) # <<>> /\ SendMessage(c, id, Null, t))
             => /\ res' = [event |-> "error", error |-> "Erro ao enviar mensagem"]
                /\ emitted' = emitted
                /\ delivered' = <<>>
                /\ messages' = messages ]_vars

\* C18 witness: after a match and a delivered message, a send whose insert
\* failed has been answered with the error
C18_Witness ==
  /\ req.op = "send_message"
  /\ req.content = Null
  /\ res = [event |-> "error", error |-> "Erro ao enviar mensagem"]
  /\ \E k \in DOMAIN emitted : emitted[k].event = "matched"
  /\ \E k \in DOMAIN emitted : emitted[k].event = "message"

\* table likes holds a like of a on b
HasLike(a, b) ==
  \E i \in DOMAIN likes :
    likes[i].fromUserId = a /\ likes[i].toUserId = b /\ likes[i].action = "like"

\* C19: in every reachable state a Match of A and B exists only if a like
\* (A,B) and a like (B,A) are both recorded; a pass never creates a Match,
\* and a like on a user who has recorded no like on the actor creates no
\* Match, emits no event and answers match = false.
C19_MatchOnlyFromMutualLikes ==
  /\ [](\A m \in Range(matches) :
          HasLike(m.userA, m.userB) /\ HasLike(m.userB, m.userA))
  /\ [][ LET u == req'.userId
             t == req'.targetUserId
         IN ( /\ SwipeStep
              /\ t \in Users
              /\ \/ req'.action = "pass"
                 \/ req'.action = "like" /\ u # t /\ ~HasLike(t, u) )
              => /\ matches' = matches
                 /\ emitted' = emitted
                 /\ delivered' = <<>>
                 /\ res' = [status |-> 200, ok |-> TRUE, match |-> FALSE] ]_vars

\* C19 witness: a like on a user whose only swipe on the actor is a pass has
\* been answered match = false, no match stored
C19_Witness ==
  /\ req.op = "swipe"
  /\ req.action = "like"
  /\ req.userId # req.targetUserId
  /\ res = [status |-> 200, ok |-> TRUE, match |-> FALSE]
  /\ \E i \in DOMAIN likes :
       /\ likes[i].fromUserId = req.targetUserId
       /\ likes[i].toUserId = req.userId
       /\ likes[i].action = "pass"
  /\ MatchesOf(req.userId, req.targetUserId) = {}

\* C20: the listing of the candidates of X succeeds and returns exactly the
\* users other than X on whom X has recorded no swipe, in every state of
\* table likes, the one where X has no swipe included.
C20_CardsAlwaysListUnseen ==
  req.op = "cards"
    => /\ res.status = 200
       /\ res.body = { u \in Users \ {req.userId} :
                         \A i \in DOMAIN likes :
                           ~(likes[i].fromUserId = req.userId /\ likes[i].toUserId = u) }

====
